---- MODULE Spec2Model ----
(***************************************************************************)
(* The epoll echo server of src/epoll.c (server_run), as a state machine.  *)
(*                                                                         *)
(* The process is single threaded.  Its position is pc:                    *)
(*   "socket", "bind", "setnonblocking", "listen", "epoll_create",         *)
(*   "add_listen", "add_stdin"   before that call of the startup sequence  *)
(*                 (lines 132, 140, 147, 153, 159, 168, 171)               *)
(*   "wait"        blocked in epoll_wait (line 181)                        *)
(*   "dispatch"    at the head of the body of  for (i ...)  (line 183)     *)
(*   "stdin_blocked"  blocked in the read of line 205                      *)
(*   "exit_success" / "exit_failure"   after exit()                        *)
(*   "killed_sigpipe"  terminated by SIGPIPE in the write of line 240      *)
(* The kernel and the peers are the environment: the accept queue, the     *)
(* receive queues, the standard-input pipe and the epoll ready list.       *)
(* Bytes are numbers 0..255; a buffer is a sequence of bytes.              *)
(***************************************************************************)
EXTENDS Integers, Sequences, FiniteSets, TLC

\* ------------------------------------------------------------- constants
MAX_CONN == 16
MAX_EVENTS == 32
BUF_SIZE == 16
STDIN_FILENO == 0

\* ---------------------------------------------------------------- bounds
MaxConns == 2      \* connections the peers open during a run
MaxSends == 1      \* sends per connection
MaxStdin == 1      \* writes to the standard-input pipe
MaxFd == 6         \* descriptor numbers 0..MaxFd
MaxOverrun == 1    \* non-zero bytes that may follow buf on the stack
MaxFaults == 1     \* connections aborted or put in error during a run

Conns == 1..MaxConns
Fds == 0..MaxFd

\* epoll event bits, as a set instead of a bit mask
EPOLLIN == "EPOLLIN"
EPOLLOUT == "EPOLLOUT"
EPOLLET == "EPOLLET"
EPOLLRDHUP == "EPOLLRDHUP"
EPOLLHUP == "EPOLLHUP"
EPOLLERR == "EPOLLERR"

\* ----------------------------------------------------------------- bytes
NL == 10
Str_exit_nl == <<101, 120, 105, 116, NL>>          \* "exit\n"
Str_date == <<37, 100, 97, 116, 101, 37>>          \* "%date%"
Str_time == <<37, 116, 105, 109, 101, 37>>         \* "%time%"
Str_hi == <<104, 105>>                             \* "hi"
Str_ls_nl == <<108, 115, NL>>                      \* "ls\n"
Str_nul == <<97, 0, 98>>                           \* 'a' NUL 'b'
Str_date_nul == Str_date \o <<0, 120>>             \* "%date%" NUL 'x'
Str_date_nl == Str_date \o <<NL>>                  \* "%date%\n"
Str_full == <<48, 49, 50, 51, 52, 53, 54, 55, 56, 57, 97, 98, 99, 100, 101, 102>>
Str_long == Str_full \o <<103, 104, 105>>          \* 19 bytes
Str_split == <<48, 49, 50, 51, 52, 53, 54, 55, 56, 57, 97, 98, 99>> \o Str_date  \* 19 bytes

Take(s, k) == SubSeq(s, 1, IF k < Len(s) THEN k ELSE Len(s))
Drop(s, k) == SubSeq(s, (IF k < Len(s) THEN k ELSE Len(s)) + 1, Len(s))
Min(S) == CHOOSE x \in S : \A y \in S : x <= y

\* ------------------------------------------------------- C string helpers
\* buf after bzero (lines 201, 220)
Bzero == [k \in 1..BUF_SIZE |-> 0]

\* buf after read(fd, buf, sizeof(buf)) returned the bytes of chunk
ReadInto(chunk) == [k \in 1..BUF_SIZE |-> IF k <= Len(chunk) THEN chunk[k] ELSE 0]

HasNul(b) == \E k \in 1..Len(b) : b[k] = 0
FirstNul(b) == Min({k \in 1..Len(b) : b[k] = 0})

\* The non-zero bytes that follow buf in memory, up to the first zero byte:
\* what strlen and %s read when buf holds no terminator.
Garbage == UNION {[1..k -> {170}] : k \in 0..MaxOverrun}

\* The C string that starts at buf: the bytes before the first zero byte,
\* running past the end of buf into g when buf holds none.
CString(b, g) == IF HasNul(b) THEN SubSeq(b, 1, FirstNul(b) - 1) ELSE b \o g

Strlen(b, g) == Len(CString(b, g))

\* strcmp(buf, lit) == 0
StrcmpEq(b, g, lit) == CString(b, g) = lit

\* time(NULL) and localtime: the broken-down local times of a run
Tms == {[tm_mon |-> 10, tm_mday |-> 6, tm_year |-> 126, tm_hour |-> 9, tm_min |-> 5, tm_sec |-> 0],
        [tm_mon |-> 11, tm_mday |-> 31, tm_year |-> 99, tm_hour |-> 23, tm_min |-> 59, tm_sec |-> 58]}

Digit2(n) == <<48 + ((n \div 10) % 10), 48 + (n % 10)>>

\* "%x" and "%X" in the C locale (the program never calls setlocale)
Format_x(tm) == Digit2(tm.tm_mon + 1) \o <<47>> \o Digit2(tm.tm_mday) \o <<47>> \o Digit2(tm.tm_year % 100)
Format_X(tm) == Digit2(tm.tm_hour) \o <<58>> \o Digit2(tm.tm_min) \o <<58>> \o Digit2(tm.tm_sec)

\* strftime(buf, sizeof(buf), fmt, tm): the text and its terminator are
\* stored at the start of buf when they fit; the rest of buf is kept.
Strftime(b, text) ==
    IF Len(text) + 1 <= BUF_SIZE
    THEN [k \in 1..BUF_SIZE |-> IF k <= Len(text) THEN text[k]
                                 ELSE IF k = Len(text) + 1 THEN 0 ELSE b[k]]
    ELSE b

\* The echo function, lines 229-237: buf after the substitution
Substitute(b, g, tm) ==
    IF StrcmpEq(b, g, Str_date) THEN Strftime(b, Format_x(tm))
    ELSE IF StrcmpEq(b, g, Str_time) THEN Strftime(b, Format_X(tm))
    ELSE b

\* The bytes handed to write(fd, buf, strlen(buf)), line 240, for a chunk
EchoBytes(chunk, g, tm) == CString(Substitute(ReadInto(chunk), g, tm), g)

\* ------------------------------------------------------------------ state
VARIABLES
    pc,          \* position of the process (see the header)
    fdtab,       \* the descriptor table: fd -> [kind, conn, nonblock]
    interest,    \* the epoll interest list: fd -> event mask, {} when not registered
    rdlist,      \* the epoll ready list: registered fds with an unreported edge
    events,      \* the batch returned by the last epoll_wait
    i,           \* index of the event being handled, 1..Len(events)
    backlog,     \* the accept queue of listen_sock
    peer,        \* per connection, the peer's side: idle, open, shut, reset
    srv,         \* per connection, the server's side: none, queued, open, closed
    rx,          \* per connection, bytes sent by the peer and not yet read
    nsends,      \* per connection, the number of sends
    tx,          \* per connection, the write calls made on it: [data, ok]
    sockerr,     \* per connection, a pending socket error
    stdinBuf,    \* bytes in the standard-input pipe, not yet read
    nstdin,      \* number of writes to the standard-input pipe
    nfaults,     \* number of connections aborted or put in error
    stdinHup     \* the writer of the standard-input pipe has closed it

vars == <<pc, fdtab, interest, rdlist, events, i, backlog, peer, srv, rx,
          nsends, tx, sockerr, stdinBuf, nstdin, nfaults, stdinHup>>

envvars == <<peer, rx, nsends, stdinBuf, nstdin, nfaults, stdinHup>>

\* socket() and epoll_create() return the lowest free descriptors after 0, 1, 2
listen_sock == 3
epfd == 4

Closed == [kind |-> "closed", conn |-> 0, nonblock |-> FALSE]
Sock(c) == [kind |-> "sock", conn |-> c, nonblock |-> FALSE]

Running == pc \notin {"exit_success", "exit_failure", "killed_sigpipe"}

Registered == {fd \in Fds : interest[fd] # {}}

\* The descriptor that holds connection c, when the server has it open
FdOf(c) == CHOOSE fd \in Fds : fdtab[fd].kind = "sock" /\ fdtab[fd].conn = c

\* setnonblocking, lines 103-113
setnonblocking(tab, fd) ==
    IF fd \in Fds /\ tab[fd].kind # "closed"
    THEN [tab EXCEPT ![fd].nonblock = TRUE]
    ELSE tab

\* What poll reports for the socket of connection c
PollConn(c) ==
    (IF rx[c] # <<>> \/ peer[c] \in {"shut", "reset"} THEN {EPOLLIN} ELSE {})
    \cup (IF peer[c] \in {"shut", "reset"} THEN {EPOLLRDHUP} ELSE {})
    \cup (IF peer[c] = "reset" THEN {EPOLLHUP, EPOLLERR} ELSE {})
    \cup (IF sockerr[c] THEN {EPOLLERR} ELSE {})

\* What poll reports for a descriptor, whatever the interest
Poll(fd) ==
    CASE fdtab[fd].kind = "listen" -> IF backlog # <<>> THEN {EPOLLIN} ELSE {}
      [] fdtab[fd].kind = "stdin" ->
            (IF stdinBuf # <<>> THEN {EPOLLIN} ELSE {})
            \cup (IF stdinHup THEN {EPOLLHUP} ELSE {})
      [] fdtab[fd].kind = "sock" -> PollConn(fdtab[fd].conn)
      [] OTHER -> {}

\* The events epoll reports for a registered descriptor: those of its mask,
\* and always EPOLLERR and EPOLLHUP
Revents(fd) == Poll(fd) \cap (interest[fd] \cup {EPOLLERR, EPOLLHUP})

\* An edge on fd: it joins the ready list if registered and not yet there
Edge(rl, fd) ==
    IF interest[fd] # {} /\ \A k \in 1..Len(rl) : rl[k] # fd THEN Append(rl, fd) ELSE rl

Without(rl, fd) == SelectSeq(rl, LAMBDA x : x # fd)

TypeOK ==
    /\ pc \in {"socket", "bind", "setnonblocking", "listen", "epoll_create",
              "add_listen", "add_stdin", "wait", "dispatch", "stdin_blocked",
              "exit_success", "exit_failure", "killed_sigpipe"}
    /\ \A fd \in Fds : fdtab[fd].kind \in {"closed", "stdin", "file", "tty", "socket",
                                           "bound", "listen", "epoll", "sock"}
    /\ \A fd \in Fds : interest[fd] \subseteq {EPOLLIN, EPOLLOUT, EPOLLET, EPOLLRDHUP, EPOLLHUP}
    /\ i \in 0..MAX_EVENTS + 1

\* What descriptor 0 is when the process starts: a pipe or a terminal, in
\* blocking or non-blocking mode, or a regular file (which epoll refuses)
StdinKinds ==
    {[kind |-> "stdin", conn |-> 0, nonblock |-> FALSE],
     [kind |-> "stdin", conn |-> 0, nonblock |-> TRUE],
     [kind |-> "file", conn |-> 0, nonblock |-> FALSE]}

\* The process at the entry of server_run: descriptors 0, 1 and 2 are open
Init ==
    /\ pc = "socket"
    /\ \E in \in StdinKinds :
         fdtab = [fd \in Fds |->
                    CASE fd = STDIN_FILENO -> in
                      [] fd \in {1, 2} -> [kind |-> "tty", conn |-> 0, nonblock |-> FALSE]
                      [] OTHER -> Closed]
    /\ interest = [fd \in Fds |-> {}]
    /\ rdlist = <<>>
    /\ events = <<>>
    /\ i = 0
    /\ backlog = <<>>
    /\ peer = [c \in Conns |-> "idle"]
    /\ srv = [c \in Conns |-> "none"]
    /\ rx = [c \in Conns |-> <<>>]
    /\ nsends = [c \in Conns |-> 0]
    /\ tx = [c \in Conns |-> <<>>]
    /\ sockerr = [c \in Conns |-> FALSE]
    /\ stdinBuf = <<>>
    /\ nstdin = 0
    /\ nfaults = 0
    /\ stdinHup = FALSE

\* ------------------------------------------------- the peers and the kernel
\* Messages a peer may send on a connection, and writes to standard input
Msgs == {Str_exit_nl}
EchoMsgs == {Str_hi, Str_date, Str_time, Str_nul, Str_date_nul, Str_date_nl, Str_full, Str_long, Str_split}
StdinMsgs == {Str_exit_nl, Str_ls_nl, Str_ls_nl \o Str_exit_nl}

\* A peer connects: the connection joins the accept queue (listen, line 153)
ClientConnect(c) ==
    /\ Running
    /\ fdtab[listen_sock].kind = "listen"
    /\ peer[c] = "idle"
    /\ \A d \in Conns : d < c => peer[d] # "idle"
    /\ Len(backlog) < MAX_CONN
    /\ peer' = [peer EXCEPT ![c] = "open"]
    /\ srv' = [srv EXCEPT ![c] = "queued"]
    /\ backlog' = Append(backlog, c)
    /\ rdlist' = Edge(rdlist, listen_sock)
    /\ UNCHANGED <<pc, fdtab, interest, events, i, rx, nsends, tx, sockerr,
                   stdinBuf, nstdin, nfaults, stdinHup>>

\* A peer sends the bytes m
ClientSendMsg(c, m) ==
    /\ Running
    /\ peer[c] = "open"
    /\ srv[c] \in {"queued", "open"}
    /\ nsends[c] < MaxSends
    /\ rx' = [rx EXCEPT ![c] = @ \o m]
    /\ nsends' = [nsends EXCEPT ![c] = @ + 1]
    /\ rdlist' = IF srv[c] = "open" THEN Edge(rdlist, FdOf(c)) ELSE rdlist
    /\ UNCHANGED <<pc, fdtab, interest, events, i, backlog, peer, srv, tx, sockerr,
                   stdinBuf, nstdin, nfaults, stdinHup>>

ClientSend(c) == \E m \in Msgs : ClientSendMsg(c, m)

ClientSendEcho(c) == \E m \in EchoMsgs : ClientSendMsg(c, m)

\* A peer closes its end (FIN)
ClientClose(c) ==
    /\ Running
    /\ peer[c] = "open"
    /\ srv[c] \in {"queued", "open"}
    /\ peer' = [peer EXCEPT ![c] = "shut"]
    /\ rdlist' = IF srv[c] = "open" THEN Edge(rdlist, FdOf(c)) ELSE rdlist
    /\ UNCHANGED <<pc, fdtab, interest, events, i, backlog, srv, rx, nsends, tx,
                   sockerr, stdinBuf, nstdin, nfaults, stdinHup>>

\* A peer aborts the connection (RST): unread bytes are dropped
ClientReset(c) ==
    /\ Running
    /\ nfaults < MaxFaults
    /\ nfaults' = nfaults + 1
    /\ peer[c] = "open"
    /\ srv[c] \in {"queued", "open"}
    /\ peer' = [peer EXCEPT ![c] = "reset"]
    /\ rx' = [rx EXCEPT ![c] = <<>>]
    /\ rdlist' = IF srv[c] = "open" THEN Edge(rdlist, FdOf(c)) ELSE rdlist
    /\ UNCHANGED <<pc, fdtab, interest, events, i, backlog, srv, nsends, tx,
                   sockerr, stdinBuf, nstdin, stdinHup>>

\* An asynchronous error is queued on an open connection (EPOLLERR alone)
ConnError(c) ==
    /\ Running
    /\ peer[c] = "open"
    /\ srv[c] = "open"
    /\ ~sockerr[c]
    /\ nfaults < MaxFaults
    /\ nfaults' = nfaults + 1
    /\ sockerr' = [sockerr EXCEPT ![c] = TRUE]
    /\ rdlist' = Edge(rdlist, FdOf(c))
    /\ UNCHANGED <<pc, fdtab, interest, events, i, backlog, peer, srv, rx, nsends,
                   tx, stdinBuf, nstdin, stdinHup>>

\* The operator's side of the standard-input pipe writes m
StdinWriteMsg(m) ==
    /\ Running
    /\ ~stdinHup
    /\ nstdin < MaxStdin
    /\ stdinBuf' = stdinBuf \o m
    /\ nstdin' = nstdin + 1
    /\ rdlist' = IF fdtab[STDIN_FILENO].kind = "stdin" THEN Edge(rdlist, STDIN_FILENO)
                 ELSE rdlist
    /\ UNCHANGED <<pc, fdtab, interest, events, i, backlog, peer, srv, rx, nsends,
                   tx, sockerr, nfaults, stdinHup>>

StdinWrite == \E m \in StdinMsgs : StdinWriteMsg(m)

\* The operator's side of the standard-input pipe is closed
StdinClose ==
    /\ Running
    /\ ~stdinHup
    /\ stdinHup' = TRUE
    /\ rdlist' = IF fdtab[STDIN_FILENO].kind = "stdin" THEN Edge(rdlist, STDIN_FILENO)
                 ELSE rdlist
    /\ UNCHANGED <<pc, fdtab, interest, events, i, backlog, peer, srv, rx, nsends,
                   tx, sockerr, stdinBuf, nstdin, nfaults>>

\* ------------------------------------------------------------ the process
\* exit(status), or the death of the process by a signal: the kernel closes
\* every descriptor of the process and drops what was queued on them
Exit(status) ==
    /\ pc' = status
    /\ fdtab' = [fd \in Fds |-> Closed]
    /\ interest' = [fd \in Fds |-> {}]
    /\ rdlist' = <<>>
    /\ events' = <<>>
    /\ i' = 0
    /\ backlog' = <<>>
    /\ srv' = [c \in Conns |-> IF srv[c] \in {"queued", "open"} THEN "closed" ELSE srv[c]]
    /\ rx' = [c \in Conns |-> <<>>]
    /\ sockerr' = [c \in Conns |-> FALSE]
    /\ stdinBuf' = <<>>

\* epoll_wait(epfd, events, MAX_EVENTS, -1), line 181: the ready descriptors
\* are polled again; those with events are reported, at most MAX_EVENTS
EpollWait ==
    /\ pc = "wait"
    /\ LET live == SelectSeq(rdlist, LAMBDA fd : Revents(fd) # {})
           nfds == IF Len(live) < MAX_EVENTS THEN Len(live) ELSE MAX_EVENTS
       IN /\ nfds > 0
          /\ events' = [k \in 1..nfds |-> [fd |-> live[k], events |-> Revents(live[k])]]
          /\ rdlist' = SubSeq(live, nfds + 1, Len(live))
    /\ i' = 1
    /\ pc' = "dispatch"
    /\ UNCHANGED <<fdtab, interest, backlog, srv, tx, sockerr>>
    /\ UNCHANGED envvars

\* The branch of lines 183, 198, 217, 247 that handles an event
Route(ev) ==
    IF ev.fd = listen_sock THEN "listen"
    ELSE IF ev.fd = STDIN_FILENO THEN "stdin"
    ELSE IF EPOLLIN \in ev.events THEN "echo"
    ELSE "unexpected"

\* The closing test without EPOLLRDHUP
ClosingHupOnly(ev) == EPOLLHUP \in ev.events

\* The closing test that also fires on EPOLLERR
ClosingOnError(ev) == ev.events \cap {EPOLLRDHUP, EPOLLHUP, EPOLLERR} # {}

\* The test of line 252
Closing(ev) == ev.events \cap {EPOLLRDHUP, EPOLLHUP} # {}

\* A teardown that closes the listening socket instead
CloseTargetListener(ev) == listen_sock

\* The descriptor that lines 256 and 259 deregister and close
CloseTarget(ev) == ev.fd

\* Lines 251-261 and the loop header of line 182, after the branch left the
\* descriptor table tab, the interest list int, the ready list rl, the
\* connections sv and their queues rxv and errv: epoll_ctl(EPOLL_CTL_DEL) and
\* close when the event carries EPOLLRDHUP or EPOLLHUP (the kernel drops what
\* is queued on a closed socket), then the next event, or epoll_wait again
CheckClose(tab, int, rl, sv, rxv, errv) ==
    LET fd == CloseTarget(events[i])
        cl == Closing(events[i])
        sock == cl /\ tab[fd].kind = "sock"
    IN /\ fdtab' = IF cl THEN [tab EXCEPT ![fd] = Closed] ELSE tab
       /\ interest' = IF cl THEN [int EXCEPT ![fd] = {}] ELSE int
       /\ rdlist' = IF cl THEN Without(rl, fd) ELSE rl
       /\ srv' = IF sock THEN [sv EXCEPT ![tab[fd].conn] = "closed"] ELSE sv
       /\ rx' = IF sock THEN [rxv EXCEPT ![tab[fd].conn] = <<>>] ELSE rxv
       /\ sockerr' = IF sock THEN [errv EXCEPT ![tab[fd].conn] = FALSE] ELSE errv
       /\ IF i < Len(events)
          THEN /\ i' = i + 1
               /\ pc' = "dispatch"
               /\ events' = events
          ELSE /\ i' = 0
               /\ pc' = "wait"
               /\ events' = <<>>

\* The connection mask without EPOLLRDHUP
ConnMaskNoRdhup == {EPOLLIN, EPOLLET, EPOLLHUP}

\* The mask of line 197
ConnMask == {EPOLLIN, EPOLLET, EPOLLRDHUP, EPOLLHUP}

\* epoll_ctl(epfd, EPOLL_CTL_ADD, fd, &ev) succeeds, line 86
EpollCtlAddOk(tab, fd) ==
    /\ fd \in Fds
    /\ tab[fd].kind \in {"stdin", "listen", "sock"}
    /\ interest[fd] = {}

\* A startup call succeeded: the process goes on to the next call with the
\* descriptor table tab, the interest list int and the ready list rl
Started(tab, int, rl, next) ==
    /\ pc' = next
    /\ fdtab' = tab
    /\ interest' = int
    /\ rdlist' = rl
    /\ UNCHANGED <<events, i, backlog, srv, rx, sockerr, stdinBuf>>

\* epoll_ctl_add(epfd, fd, mask) at startup, lines 77-90: the descriptor is
\* registered, and queued at once when it is already ready; exit when
\* epoll_ctl fails (ok is its outcome for a descriptor epoll accepts)
StartAdd(fd, mask, ok, next) ==
    IF ok /\ EpollCtlAddOk(fdtab, fd)
    THEN Started(fdtab, [interest EXCEPT ![fd] = mask],
                 IF Poll(fd) \cap (mask \cup {EPOLLERR, EPOLLHUP}) # {}
                 THEN Append(rdlist, fd) ELSE rdlist,
                 next)
    ELSE Exit("exit_failure")

\* socket(AF_INET, SOCK_STREAM, 0), lines 132-135
StartSocket ==
    /\ pc = "socket"
    /\ \E ok \in BOOLEAN :
         IF ok
         THEN Started([fdtab EXCEPT ![listen_sock] =
                          [kind |-> "socket", conn |-> 0, nonblock |-> FALSE]],
                      interest, rdlist, "bind")
         ELSE Exit("exit_failure")
    /\ UNCHANGED <<tx, peer, nsends, nstdin, nfaults, stdinHup>>

\* bind without the test of its result
StartBindUnchecked ==
    /\ pc = "bind"
    /\ \E ok \in BOOLEAN :
         Started(IF ok THEN [fdtab EXCEPT ![listen_sock].kind = "bound"] ELSE fdtab,
                 interest, rdlist, "setnonblocking")
    /\ UNCHANGED <<tx, peer, nsends, nstdin, nfaults, stdinHup>>

\* bind(listen_sock, ...), lines 140-143
StartBind ==
    /\ pc = "bind"
    /\ \E ok \in BOOLEAN :
         IF ok
         THEN Started([fdtab EXCEPT ![listen_sock].kind = "bound"], interest, rdlist,
                      "setnonblocking")
         ELSE Exit("exit_failure")
    /\ UNCHANGED <<tx, peer, nsends, nstdin, nfaults, stdinHup>>

\* setnonblocking(listen_sock), lines 147-150
StartNonblock ==
    /\ pc = "setnonblocking"
    /\ \E ok \in BOOLEAN :
         IF ok
         THEN Started(setnonblocking(fdtab, listen_sock), interest, rdlist, "listen")
         ELSE Exit("exit_failure")
    /\ UNCHANGED <<tx, peer, nsends, nstdin, nfaults, stdinHup>>

\* listen(listen_sock, MAX_CONN), lines 153-156
StartListen ==
    /\ pc = "listen"
    /\ \E ok \in BOOLEAN :
         IF ok
         THEN Started([fdtab EXCEPT ![listen_sock].kind = "listen"], interest, rdlist,
                      "epoll_create")
         ELSE Exit("exit_failure")
    /\ UNCHANGED <<tx, peer, nsends, nstdin, nfaults, stdinHup>>

\* epoll_create(1), lines 159-162
StartEpollCreate ==
    /\ pc = "epoll_create"
    /\ \E ok \in BOOLEAN :
         IF ok
         THEN Started([fdtab EXCEPT ![epfd] =
                          [kind |-> "epoll", conn |-> 0, nonblock |-> FALSE]],
                      interest, rdlist, "add_listen")
         ELSE Exit("exit_failure")
    /\ UNCHANGED <<tx, peer, nsends, nstdin, nfaults, stdinHup>>

\* epoll_ctl_add(epfd, listen_sock, EPOLLIN | EPOLLOUT | EPOLLET), line 168
StartAddListen ==
    /\ pc = "add_listen"
    /\ \E ok \in BOOLEAN :
         StartAdd(listen_sock, {EPOLLIN, EPOLLOUT, EPOLLET}, ok, "add_stdin")
    /\ UNCHANGED <<tx, peer, nsends, nstdin, nfaults, stdinHup>>

\* epoll_ctl_add(epfd, STDIN_FILENO, EPOLLIN | EPOLLET), line 171, and the
\* entry of the loop of line 177
StartAddStdin ==
    /\ pc = "add_stdin"
    /\ \E ok \in BOOLEAN :
         StartAdd(STDIN_FILENO, {EPOLLIN, EPOLLET}, ok, "wait")
    /\ UNCHANGED <<tx, peer, nsends, nstdin, nfaults, stdinHup>>

\* accept(listen_sock, ...), line 186: the lowest free descriptor for the
\* head of the accept queue, or -1
Accept(ok) ==
    LET free == {fd \in Fds : fdtab[fd].kind = "closed"}
    IN IF ok /\ fdtab[listen_sock].kind = "listen" /\ backlog # <<>> /\ free # {}
       THEN Min(free) ELSE -1

\* Lines 183-197 and 251-261: one accept, setnonblocking, epoll_ctl_add
\* (which exits when the registration fails), then the closing test
HandleListen ==
    /\ pc = "dispatch"
    /\ Route(events[i]) = "listen"
    /\ \E ok \in BOOLEAN :
         LET conn_sock == Accept(ok)
             c == Head(backlog)
             tab == IF conn_sock = -1 THEN fdtab
                    ELSE setnonblocking([fdtab EXCEPT ![conn_sock] = Sock(c)], conn_sock)
         IN IF EpollCtlAddOk(tab, conn_sock)
            THEN /\ backlog' = Tail(backlog)
                 /\ CheckClose(tab,
                               [interest EXCEPT ![conn_sock] = ConnMask],
                               IF PollConn(c) \cap (ConnMask \cup {EPOLLERR, EPOLLHUP}) # {}
                               THEN Append(rdlist, conn_sock) ELSE rdlist,
                               [srv EXCEPT ![c] = "open"], rx, sockerr)
                 /\ UNCHANGED stdinBuf
            ELSE Exit("exit_failure")
    /\ UNCHANGED <<tx, peer, nsends, nstdin, nfaults, stdinHup>>

\* The bytes waiting to be read on a descriptor
Pending(fd) ==
    CASE fdtab[fd].kind = "stdin" -> stdinBuf
      [] fdtab[fd].kind = "sock" -> rx[fdtab[fd].conn]
      [] OTHER -> <<>>

\* The outcome of read(fd, buf, sizeof(buf)) once nothing is waiting
ReadEnd(fd) ==
    CASE fdtab[fd].kind = "stdin" ->
            IF stdinHup THEN "eof"
            ELSE IF fdtab[fd].nonblock THEN "eagain" ELSE "block"
      [] fdtab[fd].kind = "sock" ->
            LET c == fdtab[fd].conn IN
            IF sockerr[c] \/ peer[c] = "reset" THEN "error"
            ELSE IF peer[c] = "shut" THEN "eof"
            ELSE IF fdtab[fd].nonblock THEN "eagain" ELSE "block"
      [] OTHER -> "error"

\* A single read instead of the loop
ChunksOnce(s) == IF s = <<>> THEN <<>> ELSE <<Take(s, BUF_SIZE)>>

\* The successive reads of at most BUF_SIZE bytes that consume the bytes s
RECURSIVE Chunks(_)
Chunks(s) == IF s = <<>> THEN <<>> ELSE <<Take(s, BUF_SIZE)>> \o Chunks(Drop(s, BUF_SIZE))

\* The bytes of s that the reads of Chunks(s) leave in the queue
RECURSIVE SumLen(_)
SumLen(chunks) == IF chunks = <<>> THEN 0 ELSE Len(Head(chunks)) + SumLen(Tail(chunks))

Unread(s) == Drop(s, SumLen(Chunks(s)))

\* The queues after a drain loop on fd ended with the read result ReadEnd:
\* what the reads returned left the queue, and a pending error was reported
\* and cleared
RxDrained(fd) ==
    IF fdtab[fd].kind = "sock" THEN [rx EXCEPT ![fdtab[fd].conn] = Unread(@)] ELSE rx

ErrDrained(fd) ==
    IF fdtab[fd].kind = "sock" THEN [sockerr EXCEPT ![fdtab[fd].conn] = FALSE] ELSE sockerr

StdinDrained(fd) == IF fdtab[fd].kind = "stdin" THEN Unread(stdinBuf) ELSE stdinBuf

\* The test of line 208 on a chunk read from descriptor 0
IsExit(chunk) == StrcmpEq(ReadInto(chunk), <<>>, Str_exit_nl)

\* Lines 198-216 and 251-261: the loop that reads descriptor 0 until a read
\* returns nothing, exiting on a chunk that compares equal to "exit\n".  A
\* blocking read with nothing to return keeps the process inside the loop;
\* the loop goes on when bytes or the end of input arrive.
HandleStdin ==
    /\ \/ pc = "dispatch" /\ Route(events[i]) = "stdin"
       \/ pc = "stdin_blocked" /\ (Pending(STDIN_FILENO) # <<>> \/ ReadEnd(STDIN_FILENO) # "block")
    /\ LET chunks == Chunks(Pending(STDIN_FILENO)) IN
       IF \E k \in 1..Len(chunks) : IsExit(chunks[k])
       THEN Exit("exit_success")
       ELSE /\ stdinBuf' = StdinDrained(STDIN_FILENO)
            /\ IF ReadEnd(STDIN_FILENO) = "block"
               THEN /\ pc' = "stdin_blocked"
                    /\ UNCHANGED <<fdtab, interest, rdlist, srv, rx, sockerr, events, i>>
               ELSE CheckClose(fdtab, interest, rdlist, srv,
                               RxDrained(STDIN_FILENO), ErrDrained(STDIN_FILENO))
            /\ UNCHANGED backlog
    /\ UNCHANGED <<tx, peer, nsends, nstdin, nfaults, stdinHup>>

\* Lines 226-245 for each chunk of a drain loop: the write calls, with the
\* bytes past the end of buf g[k], the local time tm[k] and the outcome of
\* the write ok[k]
Echoes(chunks, g, tm, ok) ==
    [k \in 1..Len(chunks) |-> [data |-> EchoBytes(chunks[k], g[k], tm[k]), ok |-> ok[k]]]

\* The chunk whose write raises SIGPIPE, 0 when none does.  A write to a
\* connection the peer has closed succeeds once and is answered by a reset;
\* the next write to it fails with EPIPE and raises SIGPIPE, which the
\* program neither ignores nor handles (no signal(), no MSG_NOSIGNAL).
SigpipeAt(c, n, ok) ==
    {0} \cup {k \in 2..n : peer[c] = "shut" /\ \E j \in 1..(k - 1) : ok[j]}

\* Lines 217-246 and 251-261: the loop that reads a connection until a read
\* returns nothing and writes each chunk back, then the closing test; or
\* the same loop cut short by SIGPIPE in one of its writes
HandleEcho ==
    /\ pc = "dispatch"
    /\ Route(events[i]) = "echo"
    /\ LET fd == events[i].fd
           c == fdtab[fd].conn
           chunks == Chunks(Pending(fd))
           n == Len(chunks)
       IN /\ ReadEnd(fd) # "block"
          /\ \E g \in [1..n -> Garbage], tm \in [1..n -> Tms], ok \in [1..n -> BOOLEAN] :
               \E kill \in SigpipeAt(c, n, ok) :
                 IF kill = 0
                 THEN /\ tx' = [tx EXCEPT ![c] = @ \o Echoes(chunks, g, tm, ok)]
                      /\ CheckClose(fdtab, interest, rdlist, srv, RxDrained(fd), ErrDrained(fd))
                      /\ UNCHANGED <<backlog, stdinBuf>>
                 ELSE /\ tx' = [tx EXCEPT ![c] = @ \o SubSeq(Echoes(chunks, g, tm, ok), 1, kill - 1)]
                      /\ Exit("killed_sigpipe")
    /\ UNCHANGED <<peer, nsends, nstdin, nfaults, stdinHup>>

\* Lines 247-249 and 251-261: an event of a connection without EPOLLIN
Unexpected ==
    /\ pc = "dispatch"
    /\ Route(events[i]) = "unexpected"
    /\ CheckClose(fdtab, interest, rdlist, srv, rx, sockerr)
    /\ UNCHANGED <<backlog, tx, peer, nsends, stdinBuf, nstdin, nfaults, stdinHup>>

Next ==
    \/ StartSocket
    \/ StartBind
    \/ StartNonblock
    \/ StartListen
    \/ StartEpollCreate
    \/ StartAddListen
    \/ StartAddStdin
    \/ \E c \in Conns : ClientConnect(c)
    \/ \E c \in Conns : ClientSend(c)
    \/ \E c \in Conns : ClientClose(c)
    \/ \E c \in Conns : ClientReset(c)
    \/ \E c \in Conns : ConnError(c)
    \/ StdinWrite
    \/ StdinClose
    \/ EpollWait
    \/ HandleListen
    \/ HandleStdin
    \/ HandleEcho
    \/ Unexpected

Spec == Init /\ [][Next]_vars

\* The echo service alone: standard input stays silent and no connection
\* is aborted, and the peers send the messages of EchoMsgs
NextEcho ==
    \/ StartSocket
    \/ StartBind
    \/ StartNonblock
    \/ StartListen
    \/ StartEpollCreate
    \/ StartAddListen
    \/ StartAddStdin
    \/ \E c \in Conns : ClientConnect(c)
    \/ \E c \in Conns : ClientSendEcho(c)
    \/ \E c \in Conns : ClientClose(c)
    \/ EpollWait
    \/ HandleListen
    \/ HandleEcho

SpecEcho == Init /\ [][NextEcho]_vars

\* ------------------------------------------- a batch as a function
\* The body of the loop of line 182 as a function of the process state, for
\* one fixed answer of the system to every call: accept and the writes
\* succeed, buf is followed by a zero byte, the clock stands still, and the
\* peers do nothing while the batch is handled.  st holds the position run,
\* the descriptor table tab, the accept queue bl, the receive queues rxs,
\* the standard-input pipe sin and the bytes written to every connection.
BatchStart ==
    [run |-> "running", tab |-> fdtab, bl |-> backlog, rxs |-> rx, sin |-> stdinBuf,
     echo |-> [c \in Conns |-> <<>>]]

BatchTm == CHOOSE tm \in Tms : TRUE

RECURSIVE Flatten(_)
Flatten(ss) == IF ss = <<>> THEN <<>> ELSE Head(ss) \o Flatten(Tail(ss))

\* Lines 183-197 on st
BatchListen(st) ==
    LET free == {fd \in Fds : st.tab[fd].kind = "closed"}
    IN IF st.tab[listen_sock].kind # "listen" \/ st.bl = <<>> \/ free = {}
       THEN [st EXCEPT !.run = "exit_failure"]
       ELSE [st EXCEPT !.tab[Min(free)] = [Sock(Head(st.bl)) EXCEPT !.nonblock = TRUE],
                       !.bl = Tail(st.bl)]

\* Lines 198-216 on st: descriptor 0 is read until a read returns nothing
BatchStdin(st) ==
    LET d == st.tab[STDIN_FILENO]
        data == CASE d.kind = "stdin" -> st.sin
                  [] d.kind = "sock" -> st.rxs[d.conn]
                  [] OTHER -> <<>>
        chunks == Chunks(data)
        blocks == d.kind = "stdin" /\ ~stdinHup /\ ~d.nonblock
    IN IF \E k \in 1..Len(chunks) : IsExit(chunks[k])
       THEN [st EXCEPT !.run = "exit_success"]
       ELSE [st EXCEPT !.sin = IF d.kind = "stdin" THEN Unread(@) ELSE @,
                       !.rxs = IF d.kind = "sock" THEN [@ EXCEPT ![d.conn] = Unread(@)] ELSE @,
                       !.run = IF blocks THEN "stdin_blocked" ELSE @]

\* Lines 217-246 on st: the connection is read until a read returns nothing
\* and every chunk is written back
BatchEcho(st, fd) ==
    LET c == st.tab[fd].conn
        chunks == Chunks(st.rxs[c])
    IN [st EXCEPT !.echo[c] = @ \o Flatten([k \in 1..Len(chunks) |->
                                               EchoBytes(chunks[k], <<>>, BatchTm)]),
                  !.rxs[c] = Unread(@)]

\* The body of the loop for one event, lines 183-260
BatchEvent(st, ev) ==
    IF st.run # "running" THEN st
    ELSE LET after == CASE Route(ev) = "listen" -> BatchListen(st)
                        [] Route(ev) = "stdin" -> BatchStdin(st)
                        [] Route(ev) = "echo" -> BatchEcho(st, ev.fd)
                        [] OTHER -> st
         IN IF after.run = "running" /\ Closing(ev)
            THEN [after EXCEPT !.tab[CloseTarget(ev)] = Closed]
            ELSE after

\* The loop of line 182 over the events evs
RECURSIVE RunBatch(_, _)
RunBatch(st, evs) ==
    IF evs = <<>> THEN st ELSE RunBatch(BatchEvent(st, Head(evs)), Tail(evs))

\* ------------------------------------------------------------- the claims

\* C1: when the dispatch of a readiness event of the listening endpoint
\* ends (and the process did not exit), no connection is left in the accept
\* queue: every pending connection was accepted and registered.
C1_ListenerDrainsBacklog ==
    [][(HandleListen /\ pc' # "exit_failure") => backlog' = <<>>]_vars

\* C2: the orderly shutdown is taken only on bytes read from the process's
\* standard input, never on bytes that a client connection sent.
C2_ExitOnlyFromStdin ==
    [][(pc # "exit_success" /\ pc' = "exit_success")
         => fdtab[STDIN_FILENO].kind = "stdin"]_vars

\* The bytes s hold the line "exit\n": the five bytes, at the start of s or
\* right after a newline
HasExitLine(s) ==
    \E k \in 1..Len(s) :
        /\ k + Len(Str_exit_nl) - 1 <= Len(s)
        /\ SubSeq(s, k, k + Len(Str_exit_nl) - 1) = Str_exit_nl
        /\ (k = 1 \/ s[k - 1] = NL)

\* C3: whenever the bytes the server reads from standard input hold the
\* line "exit\n", whatever lines precede or follow it, the server shuts down
\* with success status.
C3_ExitLineShutsDown ==
    [][(HandleStdin /\ fdtab[STDIN_FILENO].kind = "stdin" /\ HasExitLine(stdinBuf))
         => pc' = "exit_success"]_vars

\* C4: the process never suspends while it dispatches an event: it is never
\* inside the read of the standard-input loop with nothing to read and no
\* way for the read to return.
C4_SuspendsOnlyInWait ==
    ~(/\ pc = "stdin_blocked"
      /\ Pending(STDIN_FILENO) = <<>>
      /\ ReadEnd(STDIN_FILENO) = "block")

\* The connection whose event is being handled, the chunks its drain loop
\* reads, the write calls a step adds to connection c, and the chunks that
\* were written back (all of them unless the process died in the loop)
EchoConn == fdtab[events[i].fd].conn
EchoChunks == Chunks(rx[EchoConn])
NewWrites(c) == SubSeq(tx'[c], Len(tx[c]) + 1, Len(tx'[c]))
Written == 1..Len(NewWrites(EchoConn))

IsToken(chunk) == chunk \in {Str_date, Str_time}
IsDateText(d) == \E tm \in Tms : d = Format_x(tm)
IsTimeText(d) == \E tm \in Tms : d = Format_X(tm)

\* C5: every chunk of at most 15 bytes that is not exactly a reserved token
\* is written back (when the write succeeds) with the same bytes, the same
\* length and the same order, whatever byte values it holds.
C5_EchoIdentity ==
    [][HandleEcho =>
         \A k \in Written :
             (/\ Len(EchoChunks[k]) <= BUF_SIZE - 1
              /\ ~IsToken(EchoChunks[k])
              /\ NewWrites(EchoConn)[k].ok)
                 => NewWrites(EchoConn)[k].data = EchoChunks[k]]_vars

\* C6: the bytes a peer sent are consumed as reads of at most 16 bytes, each
\* producing one write of at most 16 bytes; every chunk of text (no zero
\* byte) that is not a reserved token, a completely full 16-byte chunk
\* included, is written back with exactly the bytes read.
C6_ChunkingFidelity ==
    [][(HandleEcho /\ Running') =>
         /\ Len(NewWrites(EchoConn)) = Len(EchoChunks)
         /\ \A k \in Written :
              /\ Len(EchoChunks[k]) <= BUF_SIZE
              /\ NewWrites(EchoConn)[k].ok
                   => /\ Len(NewWrites(EchoConn)[k].data) <= BUF_SIZE
                      /\ (~HasNul(EchoChunks[k]) /\ ~IsToken(EchoChunks[k]))
                           => NewWrites(EchoConn)[k].data = EchoChunks[k]]_vars

\* C7: the reply to a chunk is the local short date if and only if the
\* chunk's bytes are exactly "%date%", and the local short time if and only
\* if they are exactly "%time%": a token followed by any further bytes, or
\* split over two chunks, is not substituted.
C7_SubstitutionExactMatch ==
    [][HandleEcho =>
         \A k \in Written :
              NewWrites(EchoConn)[k].ok
                  => /\ IsDateText(NewWrites(EchoConn)[k].data) <=> EchoChunks[k] = Str_date
                     /\ IsTimeText(NewWrites(EchoConn)[k].data) <=> EchoChunks[k] = Str_time]_vars

IsPrefix(a, b) == Len(a) <= Len(b) /\ a = SubSeq(b, 1, Len(a))

\* The bytes a write may carry when they come from the chunk alone: bytes
\* of the chunk in their order, or the date or time that replaces a token
FromChunk(d, chunk) ==
    \/ IsPrefix(d, chunk)
    \/ IsPrefix(Str_date, chunk) /\ IsDateText(d)
    \/ IsPrefix(Str_time, chunk) /\ IsTimeText(d)

\* C9: the server writes to a connection only while it handles a readable
\* event of that same connection, and every byte it writes is the (possibly
\* substituted) content of a chunk read from that connection in that
\* dispatch: nothing that was not read from the connection reaches it.
C9_NoCrossDelivery ==
    [][\A c \in Conns :
          \/ tx'[c] = tx[c]
          \/ /\ HandleEcho
             /\ c = EchoConn
             /\ Len(NewWrites(c)) <= Len(EchoChunks)
             /\ \A k \in Written :
                    NewWrites(c)[k].ok => FromChunk(NewWrites(c)[k].data, EchoChunks[k])]_vars

\* C8: once every connection the server accepted was closed by its peer and
\* every resulting readiness event was dispatched, no connection descriptor
\* is open and the registered set is the baseline: the listening endpoint,
\* and standard input unless its own writer hung up.
AllEventsDispatched ==
    /\ pc = "wait"
    /\ \A k \in 1..Len(rdlist) : Revents(rdlist[k]) = {}

AllPeersClosed == \A c \in Conns : srv[c] = "open" => peer[c] \in {"shut", "reset"}

RegisteredRole(fd) ==
    CASE fdtab[fd].kind = "listen" -> "listen"
      [] fdtab[fd].kind = "stdin" -> "stdin"
      [] fdtab[fd].kind = "sock" -> "conn"
      [] OTHER -> "none"

DispatchRole(fd) ==
    IF fd = listen_sock THEN "listen" ELSE IF fd = STDIN_FILENO THEN "stdin" ELSE "conn"

\* C10: every registered descriptor has exactly one role among listening
\* endpoint, control channel and connection, and the role the dispatcher
\* gives its events agrees with the role under which it was registered,
\* also after descriptor numbers were closed and reused.
C10_RegistryRoles ==
    \A fd \in Registered :
        /\ RegisteredRole(fd) \in {"listen", "stdin", "conn"}
        /\ DispatchRole(fd) = RegisteredRole(fd)

\* ---------------------------------------------------------------------
\* The step that handles events[i]: the process leaves the head of the loop
\* body for the next event, for epoll_wait, for a blocking read, or dies
Handled == pc = "dispatch" /\ (pc' # "dispatch" \/ i' # i)

\* The event being handled carries a peer-closed or hangup bit
HupBits == events[i].events \cap {EPOLLRDHUP, EPOLLHUP} # {}

\* C11: once a descriptor was deregistered and closed, no event for it is
\* handled: the events of the batch that are still to be handled, and the
\* descriptors on the ready list from which later batches are made, are all
\* open and registered (a closed number comes back only when accept returns
\* it and it is registered again).
C11_NoEventAfterRemoval ==
    /\ \A k \in 1..Len(rdlist) :
          fdtab[rdlist[k]].kind # "closed" /\ interest[rdlist[k]] # {}
    /\ pc \in {"dispatch", "stdin_blocked"} =>
          \A k \in i..Len(events) :
              fdtab[events[k].fd].kind # "closed" /\ interest[events[k].fd] # {}

\* C11's case: the first event of a batch tore its descriptor down and the
\* batch has further events to handle.
C11_Witness ==
    /\ pc = "dispatch"
    /\ i = 2
    /\ fdtab[events[1].fd].kind = "closed"
    /\ events[1].events \cap {EPOLLRDHUP, EPOLLHUP} # {}

\* C12: when the handled event carries a peer-closed or hangup bit, the
\* descriptor is deregistered and closed by the time the next event is
\* processed, whichever branch handled it; and when the event is a readable
\* event of a connection, every chunk that was readable was written back
\* before the close.
C12_TeardownAfterHandling ==
    [][(Handled /\ HupBits) =>
          /\ fdtab'[events[i].fd].kind = "closed"
          /\ interest'[events[i].fd] = {}
          /\ (fdtab[events[i].fd].kind = "sock" /\ EPOLLIN \in events[i].events)
                => Len(tx'[EchoConn]) = Len(tx[EchoConn]) + Len(EchoChunks)]_vars

\* The lifecycle of a connection as a rank: not yet connected, in the accept
\* queue, ESTABLISHED (open and registered), CLOSED
Rank(st) == CASE st = "none" -> 0 [] st = "queued" -> 1 [] st = "open" -> 2 [] st = "closed" -> 3

\* C13: a connection never returns to an earlier state; while it is open it
\* is registered with the connection mask; and it is closed only by the
\* handling of an event of its own that carries a peer-closed or hangup bit,
\* or by the end of the process - so a read of zero bytes, a read error or a
\* write error on an event without those bits leaves it open and registered.
C13_LifecycleMonotone ==
    [][\A c \in Conns :
          /\ Rank(srv'[c]) >= Rank(srv[c])
          /\ srv'[c] = "open" =>
                \E fd \in Fds : /\ fdtab'[fd].kind = "sock"
                                 /\ fdtab'[fd].conn = c
                                 /\ interest'[fd] = {EPOLLIN, EPOLLET, EPOLLRDHUP, EPOLLHUP}
          /\ (srv[c] = "open" /\ srv'[c] = "closed") =>
                \/ ~Running'
                \/ /\ Handled
                   /\ HupBits
                   /\ fdtab[events[i].fd].kind = "sock"
                   /\ fdtab[events[i].fd].conn = c]_vars

\* C13's case: a write on a connection failed while its peer was still
\* there (no peer-closed or hangup bit), and the connection is open and
\* registered.
C13_Witness ==
    \E c \in Conns :
        /\ srv[c] = "open"
        /\ peer[c] = "open"
        /\ \E k \in 1..Len(tx[c]) : ~tx[c][k].ok
        /\ interest[FdOf(c)] # {}

\* C14: every connection socket is non-blocking, so the read that ends the
\* drain loop returns; and when the handling of a readable event of a
\* connection ends, the loop has read every byte that had arrived on that
\* connection, in chunks of at most 16 bytes.
C14_ConnectionDrained ==
    [][/\ \A fd \in Fds : fdtab'[fd].kind = "sock" => fdtab'[fd].nonblock
       /\ (/\ Handled
           /\ Running'
           /\ fdtab[events[i].fd].kind = "sock"
           /\ EPOLLIN \in events[i].events)
             => /\ rx'[EchoConn] = <<>>
                /\ \A k \in 1..Len(EchoChunks) : Len(EchoChunks[k]) <= BUF_SIZE]_vars

\* C14's case: a send longer than one buffer was read in two chunks by one
\* drain loop, and nothing of it is left in the receive queue.
C14_Witness ==
    \E c \in Conns :
        /\ srv[c] = "open"
        /\ nsends[c] = 1
        /\ Len(tx[c]) = 2
        /\ rx[c] = <<>>

\* C15: no outcome of the write of a chunk ends the process or touches the
\* connection: when a readable event of a connection was handled the process
\* is still running, one write was attempted for every chunk read (the loop
\* went on after a failure and retried nothing), and unless the event
\* carried a peer-closed or hangup bit the descriptor table and the interest
\* list are what they were.
C15_WriteFailureNonFatal ==
    [][(Handled /\ Route(events[i]) = "echo") =>
          /\ Running'
          /\ Len(tx'[EchoConn]) = Len(tx[EchoConn]) + Len(EchoChunks)
          /\ \A c \in Conns : c # EchoConn => tx'[c] = tx[c]
          /\ ~HupBits => (fdtab' = fdtab /\ interest' = interest /\ srv' = srv)]_vars

\* C16: handling a readiness event of the listening endpoint never ends the
\* server; when accept yields no connection nothing is registered and the
\* descriptor table, the registry and the connections are unchanged.
C16_AcceptFailureHarmless ==
    [][(Handled /\ Route(events[i]) = "listen") =>
          /\ Running'
          /\ backlog' = backlog =>
                (fdtab' = fdtab /\ interest' = interest /\ srv' = srv)]_vars

\* C17: an event is handled by the one branch that belongs to what its
\* descriptor is.  An event of the listening endpoint or of standard input
\* writes to no connection and reads from none; a readable event of a
\* connection is handled by the echo branch (one write for every chunk read,
\* nothing taken from standard input); an event of a connection without the
\* readable bit reads nothing and writes nothing on any descriptor.
C17_DispatchRouting ==
    [][Handled =>
          /\ fdtab[events[i].fd].kind \in {"listen", "stdin"} =>
                (tx' = tx /\ (Running' => rx' = rx))
          /\ (fdtab[events[i].fd].kind = "sock" /\ EPOLLIN \in events[i].events) =>
                /\ Len(tx'[EchoConn]) = Len(tx[EchoConn]) + Len(EchoChunks)
                /\ pc' # "exit_success"
          /\ (fdtab[events[i].fd].kind = "sock" /\ EPOLLIN \notin events[i].events
                 /\ ~HupBits) =>
                /\ Running'
                /\ rx' = rx
                /\ sockerr' = sockerr
                /\ stdinBuf' = stdinBuf
                /\ backlog' = backlog
                /\ tx' = tx]_vars

\* What is left of a batch for an observer: the state of the process, the
\* registered descriptors by what they are (the listening endpoint, standard
\* input, the connection c), whatever their numbers, and the bytes written
\* to every connection
Outcome(evs) ==
    LET st == RunBatch(BatchStart, evs)
    IN [run |-> st.run,
        registered |-> IF st.run \in {"exit_success", "exit_failure"} THEN {}
                       ELSE {<<st.tab[fd].kind, st.tab[fd].conn>> :
                                fd \in {f \in Fds : st.tab[f].kind \in {"listen", "stdin", "sock"}}},
        echo |-> st.echo]

Permuted(evs, p) == [k \in 1..Len(evs) |-> evs[p[k]]]

\* C18: when epoll_wait has returned a batch, handling its events in any
\* other order leaves the same outcome as handling them in the order
\* delivered: the same state of the process, the same registered
\* descriptors up to their numbers, the same bytes written to every
\* connection.
C18_OrderIndependence ==
    (pc = "dispatch" /\ i = 1) =>
        \A p \in Permutations(1..Len(events)) :
            Outcome(Permuted(events, p)) = Outcome(events)

\* The mask a registered descriptor has according to the claim, by what
\* the descriptor is
ClaimedMask(fd) ==
    CASE fdtab[fd].kind = "listen" -> {EPOLLIN, EPOLLET}
      [] fdtab[fd].kind = "stdin" -> {EPOLLIN, EPOLLET}
      [] fdtab[fd].kind = "sock" -> {EPOLLIN, EPOLLET, EPOLLRDHUP, EPOLLHUP}
      [] OTHER -> {}

\* C19 as stated: every registered descriptor has the mask of its role -
\* {readable, edge-triggered} for the listening endpoint and for standard
\* input, {readable, edge-triggered, peer-closed, hangup} for a connection -
\* and none is registered for writability.
C19_MasksFixed ==
    \A fd \in Registered : interest[fd] = ClaimedMask(fd) /\ EPOLLOUT \notin interest[fd]

\* The masks the registrations of lines 168, 171 and 197 give
AmendedMask(fd) ==
    CASE fdtab[fd].kind = "listen" -> {EPOLLIN, EPOLLOUT, EPOLLET}
      [] fdtab[fd].kind = "stdin" -> {EPOLLIN, EPOLLET}
      [] fdtab[fd].kind = "sock" -> {EPOLLIN, EPOLLET, EPOLLRDHUP, EPOLLHUP}
      [] OTHER -> {}

\* C19 amended: the listening endpoint is registered for exactly {readable,
\* writable, edge-triggered}, standard input for exactly {readable,
\* edge-triggered}, every connection for exactly {readable, edge-triggered,
\* peer-closed, hangup}; no other descriptor is registered for writability,
\* and the mask of a registered descriptor never changes.
C19_MasksFixedAmended ==
    [][\A fd \in Fds :
          /\ interest'[fd] # {} => interest'[fd] = AmendedMask(fd)'
          /\ (interest[fd] # {} /\ interest'[fd] # {}) => interest'[fd] = interest[fd]]_vars

\* C19's case: the listening endpoint, standard input and a connection are
\* registered together.
C19_Witness ==
    /\ {listen_sock, STDIN_FILENO} \subseteq Registered
    /\ fdtab[STDIN_FILENO].kind = "stdin"
    /\ \E fd \in Registered : fdtab[fd].kind = "sock"

\* What the startup calls made before position p have set up, in the
\* descriptor table tab and the interest list int
SetUp(p, tab, int) ==
    /\ p \in {"bind", "setnonblocking", "listen", "epoll_create", "add_listen", "add_stdin", "wait"}
          => tab[listen_sock].kind \in {"socket", "bound", "listen"}
    /\ p \in {"setnonblocking", "listen", "epoll_create", "add_listen", "add_stdin", "wait"}
          => tab[listen_sock].kind \in {"bound", "listen"}
    /\ p \in {"listen", "epoll_create", "add_listen", "add_stdin", "wait"}
          => tab[listen_sock].nonblock
    /\ p \in {"epoll_create", "add_listen", "add_stdin", "wait"}
          => tab[listen_sock].kind = "listen"
    /\ p \in {"add_listen", "add_stdin", "wait"} => tab[epfd].kind = "epoll"
    /\ p \in {"add_stdin", "wait"} => int[listen_sock] # {}
    /\ p = "wait" => int[STDIN_FILENO] # {}

StartupPcs == {"socket", "bind", "setnonblocking", "listen", "epoll_create",
               "add_listen", "add_stdin"}

\* C20: a startup call that fails ends the process with the failure status:
\* the process goes from one startup call to the next only with everything
\* the calls so far had to set up, and otherwise to exit(EXIT_FAILURE); the
\* loop is entered from the last registration only, with the listening
\* socket bound, non-blocking, listening and registered, and standard input
\* registered; and once the process has exited with failure it takes no
\* further step.
C20_FatalStartupErrors ==
    [][/\ pc # "exit_failure"
       /\ (pc \in StartupPcs /\ pc' # pc) =>
             \/ pc' = "exit_failure" /\ \A fd \in Fds : fdtab'[fd].kind = "closed"
             \/ pc' \in StartupPcs \cup {"wait"} /\ SetUp(pc', fdtab', interest')
       /\ (pc \in StartupPcs /\ pc' \in {"wait", "dispatch", "stdin_blocked"}) =>
             pc = "add_stdin" /\ pc' = "wait"]_vars

\* C20's case: a startup call failed and the process has exited with the
\* failure status before any connection was made.
C20_Witness ==
    /\ pc = "exit_failure"
    /\ \A c \in Conns : srv[c] = "none" /\ tx[c] = <<>>

====
